---- MODULE Spec2Model ----
(***************************************************************************)
(* Model of synchronizer.py: the name normalizer, the playlist path        *)
(* resolver, and the two passes (negative_sync, positive_sync) of the      *)
(* Synchronizer as driven by main().                                       *)
(*                                                                         *)
(* A string is a sequence of characters, a character being a one-token     *)
(* TLA+ string ("a", "A", "_", ...).  Three tokens stand for non-ASCII     *)
(* code points: "acute" is U+0301 (combining acute accent, category Mn),   *)
(* "a-acute" is U+00E1 and "A-acute" is U+00C1.                            *)
(* A path is a record [abs, segs]: abs tells whether the string starts     *)
(* with '/', segs is the sequence of its '/'-separated segments.           *)
(* The filesystem maps a path to the node there: nothing, a file, a        *)
(* directory, or a symbolic link to a directory.                           *)
(***************************************************************************)
EXTENDS Integers, Sequences, FiniteSets, TLC

VARIABLES
    fs,         \* the filesystem: path -> node (kind, size, mtime, data)
    playlist,   \* the playlist lines handed to main(), in order
    normalize,  \* args.normalize
    paths,      \* Synchronizer._paths: destination path -> source path
    dry_run,    \* Synchronizer._dry_run
    no_delete,  \* args.no_delete
    pc,         \* where main() is
    walk,       \* what os.walk has still to yield, in order
    todo,       \* what the loop of positive_sync has still to visit
    events,     \* filesystem calls made, and lines printed, by the current run
    fs0,        \* the filesystem when the current run started
    runs,       \* for each finished run, the events it made
    fn          \* argument and results of the pure functions

vars == <<fs, playlist, normalize, paths, dry_run, no_delete, pc, walk, todo,
          events, fs0, runs, fn>>

syncVars == <<fs, playlist, normalize, paths, dry_run, no_delete, pc, walk,
              todo, events, fs0, runs>>

(***************************************************************************)
(* Bounds                                                                  *)
(***************************************************************************)
MaxLen == 4          \* longest string given to normalize_name
MaxSegs == 3         \* most segments of a raw playlist line
MaxPlaylist == 3     \* most lines of a playlist
MaxRuns == 2         \* most runs of main() in succession

\* the sequences over S of length n at most
RECURSIVE SeqsUpTo(_, _)
SeqsUpTo(S, n) ==
    IF n = 0 THEN {<<>>}
    ELSE LET shorter == SeqsUpTo(S, n - 1)
         IN  shorter \cup {Append(s, c) : s \in shorter, c \in S}

(***************************************************************************)
(* Characters                                                              *)
(***************************************************************************)
\* the character class of the regular expression of normalize_name
WeirdChars ==
    {"!", "@", "#", "$", "%", "^", "&", "*", "(", ")", "'", "\"", "<", ">",
     "~", "_", " "}

\* str.lower() on the letters of the model
LowerOf ==
    ("A" :> "a") @@ ("B" :> "b") @@ ("A-acute" :> "a-acute")
    @@ ("L" :> "l") @@ ("M" :> "m") @@ ("S" :> "s")

\* canonical decomposition (NFD) of the precomposed letters of the model
Decomposition ==
    ("a-acute" :> <<"a", "acute">>) @@ ("A-acute" :> <<"A", "acute">>)

\* unicodedata.category(c) == 'Mn'
IsMn(c) == c \in {"acute"}

LowerChar(c) == IF c \in DOMAIN LowerOf THEN LowerOf[c] ELSE c

NfdChar(c) == IF c \in DOMAIN Decomposition THEN Decomposition[c] ELSE <<c>>

(***************************************************************************)
(* normalize_name                                                          *)
(***************************************************************************)
RECURSIVE SkipWeird(_)
SkipWeird(s) ==
    IF s # <<>> /\ Head(s) \in WeirdChars THEN SkipWeird(Tail(s)) ELSE s

\* the mutant gives every class character an underscore of its own
ReSubEach(s) ==
    [i \in 1..Len(s) |-> IF s[i] \in WeirdChars THEN "_" ELSE s[i]]

\* re.sub("[...]+", '_', s): every maximal run of class characters becomes
\* one underscore
RECURSIVE ReSub(_)
ReSub(s) ==
    IF s = <<>> THEN <<>>
    ELSE IF Head(s) \in WeirdChars
         THEN <<"_">> \o ReSub(SkipWeird(Tail(s)))
         ELSE <<Head(s)>> \o ReSub(Tail(s))

StrLower(s) == [i \in 1..Len(s) |-> LowerChar(s[i])]

RECURSIVE Nfd(_)
Nfd(s) == IF s = <<>> THEN <<>> ELSE NfdChar(Head(s)) \o Nfd(Tail(s))

StripMn(s) == SelectSeq(s, LAMBDA c : ~IsMn(c))

normalize_name(orig_name) ==
    StripMn(Nfd(StrLower(ReSub(orig_name))))

(***************************************************************************)
(* os.path                                                                 *)
(***************************************************************************)
Dot == <<".">>
DotDot == <<".", ".">>

Path(a, s) == [abs |-> a, segs |-> s]

isabs(p) == p.abs

\* os.path.join(a, b)
join(a, b) == IF b.abs THEN b ELSE Path(a.abs, a.segs \o b.segs)

\* the loop of posixpath.normpath over the segments
RECURSIVE NormComps(_, _, _)
NormComps(comps, new, initial_slash) ==
    IF comps = <<>> THEN new
    ELSE LET comp == Head(comps)
             rest == Tail(comps)
         IN  IF comp = <<>> \/ comp = Dot
             THEN NormComps(rest, new, initial_slash)
             ELSE IF \/ comp # DotDot
                     \/ (~initial_slash /\ new = <<>>)
                     \/ (new # <<>> /\ new[Len(new)] = DotDot)
                  THEN NormComps(rest, Append(new, comp), initial_slash)
                  ELSE IF new # <<>>
                       THEN NormComps(rest, SubSeq(new, 1, Len(new) - 1),
                                      initial_slash)
                       ELSE NormComps(rest, new, initial_slash)

normpath(p) ==
    LET comps == NormComps(p.segs, <<>>, p.abs)
    IN  IF ~p.abs /\ comps = <<>> THEN Path(FALSE, <<Dot>>)
        ELSE Path(p.abs, comps)

RECURSIVE CommonPrefixLen(_, _)
CommonPrefixLen(a, b) ==
    IF a = <<>> \/ b = <<>> \/ Head(a) # Head(b) THEN 0
    ELSE 1 + CommonPrefixLen(Tail(a), Tail(b))

\* os.path.relpath(path, start) for absolute path and start (abspath is
\* normpath on them)
relpath(path, start) ==
    LET start_list == normpath(start).segs
        path_list == normpath(path).segs
        i == CommonPrefixLen(start_list, path_list)
        rel_list == [k \in 1..(Len(start_list) - i) |-> DotDot]
                    \o SubSeq(path_list, i + 1, Len(path_list))
    IN  IF rel_list = <<>> THEN Path(FALSE, <<Dot>>)
        ELSE Path(FALSE, rel_list)

prepare_path(path, origin) ==
    IF isabs(path) THEN normpath(relpath(path, origin))
    ELSE normpath(path)

(***************************************************************************)
(* Synchronizer.__init__ and the playlist of main()                        *)
(***************************************************************************)
source_root == Path(TRUE, << <<"s">> >>)      \* args.source
dest_root == Path(TRUE, << <<"d">> >>)        \* args.dest

EmptyMap == [x \in {} |-> x]

\* no pure function is under check
FnIdle == [op |-> "none"]

\* normalize(x) on a relative path: '/' is not in the character class and is
\* no letter, so the segments are normalized one by one
NormalizePath(p, norm) ==
    IF norm THEN Path(p.abs, [i \in 1..Len(p.segs) |-> normalize_name(p.segs[i])])
    ELSE p

\* the mutant keeps the first entry of a key
RECURSIVE PathsOfFirst(_, _, _, _, _)
PathsOfFirst(lines, source, dest, norm, acc) ==
    IF lines = <<>> THEN acc
    ELSE LET x == Head(lines)
             k == join(dest, NormalizePath(x, norm))
             v == join(source, x)
         IN  PathsOfFirst(Tail(lines), source, dest, norm, acc @@ (k :> v))

\* the dict comprehension: a later entry replaces an earlier one with the
\* same key
RECURSIVE PathsOf(_, _, _, _, _)
PathsOf(lines, source, dest, norm, acc) ==
    IF lines = <<>> THEN acc
    ELSE LET x == Head(lines)
             k == join(dest, NormalizePath(x, norm))
             v == join(source, x)
         IN  PathsOf(Tail(lines), source, dest, norm,
                     (k :> v) @@ [q \in DOMAIN acc \ {k} |-> acc[q]])

Synchronizer_init(lines, source, dest, norm) ==
    PathsOf(lines, source, dest, norm, EmptyMap)

\* main(): playlist = (prepare_path(x.strip(), args.source) for x in ...)
MainPlaylist(lines, source) ==
    [i \in 1..Len(lines) |-> prepare_path(lines[i], source)]

\* p is root or lies below it, once both are normalized
IsPrefix(a, b) == Len(a) <= Len(b) /\ SubSeq(b, 1, Len(a)) = a

Under(p, root) ==
    LET np == normpath(p)
        nr == normpath(root)
    IN  np.abs = nr.abs /\ IsPrefix(nr.segs, np.segs)

(***************************************************************************)
(* The filesystem                                                          *)
(***************************************************************************)
Now == 2             \* the time of the runs: what a write stamps on a file

\* data is the content of a file: that of a source file is named after its
\* path, that of a file the destination starts with is "old"
NoNode == [kind |-> "none", size |-> 0, mtime |-> 0, data |-> <<>>]

FileNode(size, mtime, data) ==
    [kind |-> "file", size |-> size, mtime |-> mtime, data |-> data]

\* a directory has a size and a modification time too (os.stat gives them)
DirNode == [kind |-> "dir", size |-> 1, mtime |-> Now, data |-> <<>>]

\* a symbolic link: its data are the segments of the absolute path it names
LinkNode(target) ==
    [kind |-> "link", size |-> 1, mtime |-> Now, data |-> target.segs]

Rel(s) == Path(FALSE, s)

\* the relative paths of the model
RelPaths == {<< <<"a">> >>, << <<"A">> >>, << <<"a">>, <<"a">> >>}

TreeNodes(root) == {join(root, Rel(r)) : r \in RelPaths}

\* os.path.split(p)[0]
Parent(p) == Path(p.abs, SubSeq(p.segs, 1, Len(p.segs) - 1))

\* os.path.split(p)[1]
BaseName(p) == p.segs[Len(p.segs)]

\* the entry at p itself, a link not followed (os.lstat)
Raw(f, p) ==
    IF p.segs = <<>> THEN DirNode
    ELSE IF p \in DOMAIN f THEN f[p] ELSE NoNode

\* the kernel resolves a path segment by segment and follows each link
RECURSIVE Follow(_, _, _)
Follow(f, cur, rest) ==
    IF rest = <<>> THEN cur
    ELSE LET nxt == Path(cur.abs, Append(cur.segs, Head(rest)))
         IN  IF Raw(f, nxt).kind = "link"
             THEN Follow(f, Path(TRUE, f[nxt].data), Tail(rest))
             ELSE Follow(f, nxt, Tail(rest))

\* where p leads, every link followed
Real(f, p) == Follow(f, Path(p.abs, <<>>), p.segs)

\* where the entry named p is: the links of its directory followed, its own
\* not (what unlink, rmdir and mkdir work on)
RealEntry(f, p) ==
    IF p.segs = <<>> THEN p
    ELSE LET dir == Real(f, Parent(p))
         IN  Path(dir.abs, Append(dir.segs, BaseName(p)))

\* os.stat(p)
Lookup(f, p) == Raw(f, Real(f, p))

Exists(f, p) == Lookup(f, p).kind # "none"

\* os.listdir(p), each entry under the name it has below p
ListDir(f, p) ==
    LET dir == Real(f, p)
    IN  {join(p, Rel(<<BaseName(q)>>)) :
            q \in {r \in DOMAIN f : /\ r.segs # <<>>
                                    /\ Parent(r) = dir
                                    /\ f[r].kind # "none"}}

\* the filesystem with node v at p
Put(f, p, v) == [q \in DOMAIN f \cup {p} |-> IF q = p THEN v ELSE f[q]]

\* the sizes and times of the files of the source tree and of the files the
\* destination tree starts with
SourceStats == {<<1, 2>>, <<1, 3>>, <<2, 2>>}
DestStats == {<<1, 2>>, <<2, 3>>}

SourceValues(p) ==
    {NoNode, DirNode} \cup {FileNode(st[1], st[2], p.segs) : st \in SourceStats}

DestValues(p) ==
    {NoNode, DirNode} \cup {FileNode(st[1], st[2], << <<"old">> >>) : st \in DestStats}

\* a node exists only in a directory
IsTree(f, root) ==
    \A p \in DOMAIN f :
        (p # root /\ f[p].kind # "none") => Raw(f, Parent(p)).kind = "dir"

\* the trees a root can hold: the root is missing, or a directory
DestTrees ==
    LET nodes == TreeNodes(dest_root)
        below == {g \in [nodes -> UNION {DestValues(p) : p \in nodes}] :
                    \A p \in nodes : g[p] \in DestValues(p)}
        all == {(dest_root :> r) @@ g : r \in {NoNode, DirNode}, g \in below}
    IN  {f \in all : IsTree(f, dest_root)}

SourceTrees ==
    LET nodes == TreeNodes(source_root)
        below == {g \in [nodes -> UNION {SourceValues(p) : p \in nodes}] :
                    \A p \in nodes : g[p] \in SourceValues(p)}
        all == {(source_root :> DirNode) @@ g : g \in below}
    IN  {f \in all : IsTree(f, source_root)}

\* the source holds nothing but what the playlist names (and the directories
\* that lead there): the passes read nothing else of it
OnlyNamed(f, lines) ==
    \A p \in DOMAIN f :
        (p # source_root /\ f[p].kind # "none") =>
            \E i \in 1..Len(lines) :
                LET v == join(source_root, lines[i])
                IN  IsPrefix(p.segs, v.segs) /\ Exists(f, v)

(***************************************************************************)
(* Order of strings, as sorted() compares them                             *)
(***************************************************************************)
\* ord(c) of the characters a path of the model is made of
Ord ==
    ("/" :> 47) @@ ("." :> 46) @@ ("A" :> 65) @@ ("_" :> 95) @@ ("a" :> 97)
    @@ ("d" :> 100) @@ ("s" :> 115)

RECURSIVE JoinSegs(_)
JoinSegs(segs) ==
    IF segs = <<>> THEN <<>>
    ELSE IF Len(segs) = 1 THEN Head(segs)
    ELSE Head(segs) \o <<"/">> \o JoinSegs(Tail(segs))

\* the path as the string the program holds
PathStr(p) == IF p.abs THEN <<"/">> \o JoinSegs(p.segs) ELSE JoinSegs(p.segs)

RECURSIVE StrLess(_, _)
StrLess(x, y) ==
    IF y = <<>> THEN FALSE
    ELSE IF x = <<>> THEN TRUE
    ELSE IF Head(x) # Head(y) THEN Ord[Head(x)] < Ord[Head(y)]
    ELSE StrLess(Tail(x), Tail(y))

\* the mutant sorts the other way round
RECURSIVE SortedItemsDesc(_)
SortedItemsDesc(m) ==
    IF DOMAIN m = {} THEN <<>>
    ELSE LET k == CHOOSE k \in DOMAIN m :
                    \A j \in DOMAIN m \ {k} : StrLess(PathStr(j), PathStr(k))
         IN  <<[dest |-> k, source |-> m[k]]>>
             \o SortedItemsDesc([q \in DOMAIN m \ {k} |-> m[q]])

\* sorted(self._paths.items())
RECURSIVE SortedItems(_)
SortedItems(m) ==
    IF DOMAIN m = {} THEN <<>>
    ELSE LET k == CHOOSE k \in DOMAIN m :
                    \A j \in DOMAIN m \ {k} : StrLess(PathStr(k), PathStr(j))
         IN  <<[dest |-> k, source |-> m[k]]>>
             \o SortedItems([q \in DOMAIN m \ {k} |-> m[q]])

(***************************************************************************)
(* os.walk(top, topdown=False, followlinks=True)                           *)
(***************************************************************************)
\* the orders scandir may list a set of entries in
RECURSIVE Orders(_)
Orders(S) ==
    IF S = {} THEN {<<>>}
    ELSE UNION {{<<x>> \o o : o \in Orders(S \ {x})} : x \in S}

\* every directory is listed when the walk enters it, its sub-directories are
\* walked next, and it is yielded last
RECURSIVE Walks(_, _)
RECURSIVE WalkDirs(_, _, _)
Walks(f, top) ==
    IF Lookup(f, top).kind # "dir" THEN {<<>>}
    ELSE LET entries == ListDir(f, top)
             dirs == {q \in entries : Lookup(f, q).kind = "dir"}
             nondirs == entries \ dirs
         IN  UNION {
               UNION {
                 {below \o <<[root |-> top,
                              dirs |-> [i \in 1..Len(ds) |-> BaseName(ds[i])],
                              files |-> [i \in 1..Len(fl) |-> BaseName(fl[i])]]>>
                    : below \in WalkDirs(f, top, ds)}
                 : fl \in Orders(nondirs)}
               : ds \in Orders(dirs)}

WalkDirs(f, top, ds) ==
    IF ds = <<>> THEN {<<>>}
    ELSE {first \o rest : first \in Walks(f, Head(ds)),
                          rest \in WalkDirs(f, top, Tail(ds))}

(***************************************************************************)
(* Synchronizer.negative_sync: the body of the loop, for one directory     *)
(***************************************************************************)
\* what a run did: a filesystem call it made ("call"), a line it printed
\* instead of the call ("print"), or a decision it logged ("log")
Event(op, path, how) == [op |-> op, path |-> path, how |-> how]

\* what a step comes to; fatal tells that it raised
Result(f, ev, fatal) == [fs |-> f, events |-> ev, fatal |-> fatal]

\* the mutant keeps no file
KeepFileNever(m, filename) == FALSE

\* filename in self._paths
KeepFile(m, filename) == filename \in DOMAIN m

\* os.unlink(p)
Unlink(f, p) == Put(f, RealEntry(f, p), NoNode)

\* os.rmdir(p): a link to a directory is no directory
Rmdir(f, p) ==
    IF Raw(f, RealEntry(f, p)).kind # "dir" THEN [fs |-> f, err |-> "ENOTDIR"]
    ELSE [fs |-> Put(f, RealEntry(f, p), NoNode), err |-> "ok"]

\* for f in files: ...
RECURSIVE NegativeFiles(_, _, _, _, _, _)
NegativeFiles(f, ev, root, files, m, dry) ==
    IF files = <<>> THEN [fs |-> f, events |-> ev]
    ELSE LET filename == join(root, Rel(<<Head(files)>>))
         IN  IF ~KeepFile(m, filename)
             THEN IF ~dry
                  THEN NegativeFiles(Unlink(f, filename),
                                     Append(ev, Event("unlink", filename, "call")),
                                     root, Tail(files), m, dry)
                  ELSE NegativeFiles(f,
                                     Append(ev, Event("unlink", filename, "print")),
                                     root, Tail(files), m, dry)
             ELSE NegativeFiles(f, ev, root, Tail(files), m, dry)

\* if not len(os.listdir(root)): ...
NegativeDir(f, ev, root, dry) ==
    IF ListDir(f, root) = {}
    THEN IF ~dry
         THEN LET rd == Rmdir(f, root)
                  ev1 == Append(ev, Event("rmdir", root, "call"))
              IN  IF rd.err # "ok"
                  THEN Result(rd.fs, Append(ev1, Event("fatal", root, "log")),
                              TRUE)
                  ELSE Result(rd.fs, ev1, FALSE)
         ELSE Result(f, Append(ev, Event("rmdir", root, "print")), FALSE)
    ELSE Result(f, ev, FALSE)

\* the mutant judges the directory by what the walk listed when it entered it
NegativeOneListed(f, ev, entry, m, dry) ==
    LET r == NegativeFiles(f, ev, entry.root, entry.files, m, dry)
    IN  IF entry.dirs = <<>> /\ entry.files = <<>>
        THEN NegativeDir(r.fs, r.events, entry.root, dry)
        ELSE Result(r.fs, r.events, FALSE)

NegativeOne(f, ev, entry, m, dry) ==
    LET r == NegativeFiles(f, ev, entry.root, entry.files, m, dry)
    IN  NegativeDir(r.fs, r.events, entry.root, dry)

\* the whole pass over what the walk yields: what a run from f comes to
RECURSIVE negative_sync(_, _, _, _, _)
negative_sync(f, ev, w, m, dry) ==
    IF w = <<>> THEN Result(f, ev, FALSE)
    ELSE LET r == NegativeOne(f, ev, Head(w), m, dry)
         IN  IF r.fatal THEN r
             ELSE negative_sync(r.fs, r.events, Tail(w), m, dry)

(***************************************************************************)
(* os.makedirs and shutil.copyfile                                         *)
(***************************************************************************)
\* os.mkdir(name)
Mkdir(f, name) ==
    IF Exists(f, name) THEN [fs |-> f, err |-> "EEXIST"]
    ELSE IF ~Exists(f, Parent(name)) THEN [fs |-> f, err |-> "ENOENT"]
    ELSE IF Lookup(f, Parent(name)).kind # "dir" THEN [fs |-> f, err |-> "ENOTDIR"]
    ELSE [fs |-> Put(f, RealEntry(f, name), DirNode), err |-> "ok"]

\* the mutant makes the directory alone, as os.mkdir does
makedirs_leaf(f, name) == Mkdir(f, name)

\* os.makedirs(name): the missing ancestors first (one that exists already is
\* no error there), then the directory itself
RECURSIVE makedirs(_, _)
makedirs(f, name) ==
    LET head == Parent(name)
        up == IF name.segs # <<>> /\ head.segs # <<>> /\ ~Exists(f, head)
              THEN makedirs(f, head)
              ELSE [fs |-> f, err |-> "ok"]
    IN  IF up.err \notin {"ok", "EEXIST"} THEN up
        ELSE Mkdir(up.fs, name)

\* shutil.copyfile(source, dest): the content goes over, the time is that of
\* the write
copyfile(f, source, dest) ==
    IF Exists(f, dest) /\ Real(f, source) = Real(f, dest)
    THEN [fs |-> f, err |-> "SameFileError"]
    ELSE IF ~Exists(f, Parent(dest)) THEN [fs |-> f, err |-> "ENOENT"]
    ELSE IF Lookup(f, Parent(dest)).kind # "dir" THEN [fs |-> f, err |-> "ENOTDIR"]
    ELSE IF Lookup(f, dest).kind = "dir" THEN [fs |-> f, err |-> "EISDIR"]
    ELSE [fs |-> Put(f, Real(f, dest),
                     FileNode(Lookup(f, source).size, Now, Lookup(f, source).data)),
          err |-> "ok"]

(***************************************************************************)
(* Synchronizer._positive_sync_one                                         *)
(***************************************************************************)
\* the mutant takes a destination that is not older for up to date
UpToDateTimeOnly(dest_stat, source_stat) ==
    /\ dest_stat.kind # "none"
    /\ dest_stat.mtime >= source_stat.mtime

\* the mutant wants the destination strictly newer
UpToDateStrict(dest_stat, source_stat) ==
    /\ dest_stat.kind # "none"
    /\ dest_stat.size = source_stat.size
    /\ dest_stat.mtime > source_stat.mtime

\* dest_stat and st_size == st_size and st_mtime >= st_mtime
UpToDate(dest_stat, source_stat) ==
    /\ dest_stat.kind # "none"
    /\ dest_stat.size = source_stat.size
    /\ dest_stat.mtime >= source_stat.mtime

\* the mutant copies under dry-run too
CopyOneForReal(f, ev, source, dest, dry) ==
    LET md == makedirs(f, Parent(dest))
        cp == copyfile(md.fs, source, dest)
    IN  Result(cp.fs,
               ev \o <<Event("makedirs", Parent(dest), "call"),
                       Event("copyfile", dest, "call")>>,
               cp.err # "ok")

\* the copy, from dir_name = os.path.split(dest)[0] on
CopyOne(f, ev, source, dest, dry) ==
    LET dir_name == Parent(dest)
    IN  IF dry
        THEN Result(f,
                    ev \o <<Event("makedirs", dir_name, "print"),
                            Event("copyfile", dest, "print")>>,
                    FALSE)
        ELSE LET md == makedirs(f, dir_name)
                 ev1 == Append(ev, Event("makedirs", dir_name, "call"))
             IN  IF md.err \notin {"ok", "EEXIST"}
                 THEN Result(md.fs, Append(ev1, Event("fatal", dest, "log")), TRUE)
                 ELSE LET cp == copyfile(md.fs, source, dest)
                          ev2 == Append(ev1, Event("copyfile", dest, "call"))
                      IN  IF cp.err # "ok"
                          THEN Result(cp.fs,
                                      Append(ev2, Event("fatal", dest, "log")),
                                      TRUE)
                          ELSE Result(cp.fs, ev2, FALSE)

\* the mutant passes over a source that is missing, with a warning
positive_sync_one_lenient(f, ev, source, dest, dry) ==
    LET source_stat == Lookup(f, source)
        dest_stat == Lookup(f, dest)
    IN  IF source_stat.kind # "file"
        THEN Result(f, Append(ev, Event("warning", dest, "log")), FALSE)
        ELSE IF UpToDate(dest_stat, source_stat)
        THEN Result(f, Append(ev, Event("skip", dest, "log")), FALSE)
        ELSE CopyOne(f, ev, source, dest, dry)

\* the mutant copies whatever the source is
positive_sync_one_any(f, ev, source, dest, dry) ==
    LET source_stat == Lookup(f, source)
        dest_stat == Lookup(f, dest)
    IN  IF source_stat.kind = "none"
        THEN Result(f, Append(ev, Event("fatal", dest, "log")), TRUE)
        ELSE IF UpToDate(dest_stat, source_stat)
        THEN Result(f, Append(ev, Event("skip", dest, "log")), FALSE)
        ELSE CopyOne(f, ev, source, dest, dry)

positive_sync_one(f, ev, source, dest, dry) ==
    LET source_stat == Lookup(f, source)
        dest_stat == Lookup(f, dest)
    IN  IF source_stat.kind = "none"
        THEN Result(f, Append(ev, Event("fatal", dest, "log")), TRUE)
        ELSE IF source_stat.kind # "file"
        THEN Result(f, Append(ev, Event("warning", dest, "log")), FALSE)
        ELSE IF UpToDate(dest_stat, source_stat)
        THEN Result(f, Append(ev, Event("skip", dest, "log")), FALSE)
        ELSE CopyOne(f, ev, source, dest, dry)

\* the whole pass over the sorted items; an error ends it
RECURSIVE positive_sync(_, _, _, _)
positive_sync(f, ev, items, dry) ==
    IF items = <<>> THEN Result(f, ev, FALSE)
    ELSE LET r == positive_sync_one(f, ev, Head(items).source,
                                    Head(items).dest, dry)
         IN  IF r.fatal THEN r
             ELSE positive_sync(r.fs, r.events, Tail(items), dry)

(***************************************************************************)
(* main(): the runs                                                        *)
(***************************************************************************)
\* the lines of the playlist file
Lines == {Rel(r) : r \in RelPaths}

\* the playlists: no line twice (a line given twice names one entry twice)
Playlists ==
    {pl \in SeqsUpTo(Lines, MaxPlaylist) :
        \A i, j \in 1..Len(pl) : pl[i] = pl[j] => i = j}

Init ==
    /\ fn = FnIdle
    /\ playlist \in Playlists
    /\ normalize \in BOOLEAN
    /\ dry_run \in BOOLEAN
    /\ no_delete \in BOOLEAN
    /\ paths = Synchronizer_init(MainPlaylist(playlist, source_root),
                                 source_root, dest_root, normalize)
    /\ fs \in {d @@ s : d \in DestTrees,
                        s \in {t \in SourceTrees :
                                 OnlyNamed(t, MainPlaylist(playlist, source_root))}}
    /\ fs0 = fs
    /\ pc = "start"
    /\ walk = <<>>
    /\ todo = <<>>
    /\ events = <<>>
    /\ runs = <<>>

\* the mutant starts the walk whatever --no-delete says
NegativeSyncBeginAlways ==
    /\ pc = "start"
    /\ walk' \in Walks(fs, dest_root)
    /\ pc' = "negative"
    /\ UNCHANGED <<fs, playlist, normalize, paths, dry_run, no_delete, todo,
                   events, fs0, runs, fn>>

\* if not args.no_delete: sync.negative_sync(): the walk starts
NegativeSyncBegin ==
    /\ pc = "start" /\ ~no_delete
    /\ walk' \in Walks(fs, dest_root)
    /\ pc' = "negative"
    /\ UNCHANGED <<fs, playlist, normalize, paths, dry_run, no_delete, todo,
                   events, fs0, runs, fn>>

\* one directory of the walk; an error ends the run
NegativeSyncStep ==
    /\ pc = "negative" /\ walk # <<>>
    /\ LET r == NegativeOne(fs, events, Head(walk), paths, dry_run)
       IN  /\ fs' = r.fs
           /\ events' = r.events
           /\ pc' = IF r.fatal THEN "failed" ELSE "negative"
           /\ walk' = IF r.fatal THEN walk ELSE Tail(walk)
    /\ UNCHANGED <<playlist, normalize, paths, dry_run, no_delete, todo, fs0,
                   runs, fn>>

\* sync.positive_sync() starts: after the walk, or at once under --no-delete
PositiveSyncBegin ==
    /\ \/ pc = "negative" /\ walk = <<>>
       \/ pc = "start" /\ no_delete
    /\ todo' = SortedItems(paths)
    /\ pc' = "positive"
    /\ UNCHANGED <<fs, playlist, normalize, paths, dry_run, no_delete, walk,
                   events, fs0, runs, fn>>

\* one entry of the mapping; an error ends the run
PositiveSyncStep ==
    /\ pc = "positive" /\ todo # <<>>
    /\ LET r == positive_sync_one(fs, events, Head(todo).source, Head(todo).dest,
                                  dry_run)
       IN  /\ fs' = r.fs
           /\ events' = r.events
           /\ pc' = IF r.fatal THEN "failed" ELSE "positive"
           /\ todo' = IF r.fatal THEN todo ELSE Tail(todo)
    /\ UNCHANGED <<playlist, normalize, paths, dry_run, no_delete, walk, fs0,
                   runs, fn>>

\* logging.info('Done.')
PositiveSyncEnd ==
    /\ pc = "positive" /\ todo = <<>>
    /\ pc' = "done"
    /\ UNCHANGED <<fs, playlist, normalize, paths, dry_run, no_delete, walk,
                   todo, events, fs0, runs, fn>>

\* the program is run again, with the same arguments
Rerun ==
    /\ pc = "done" /\ Len(runs) + 1 < MaxRuns
    /\ runs' = Append(runs, events)
    /\ events' = <<>>
    /\ fs0' = fs
    /\ pc' = "start"
    /\ UNCHANGED <<fs, playlist, normalize, paths, dry_run, no_delete, walk,
                   todo, fn>>

Next ==
    \/ NegativeSyncBegin
    \/ NegativeSyncStep
    \/ PositiveSyncBegin
    \/ PositiveSyncStep
    \/ PositiveSyncEnd
    \/ Rerun

Spec == Init /\ [][Next]_vars

(***************************************************************************)
(* What the claims speak of                                                *)
(***************************************************************************)
DestNodes == {p \in DOMAIN fs : IsPrefix(dest_root.segs, p.segs)}

SourceNodes == {p \in DOMAIN fs : IsPrefix(source_root.segs, p.segs)}

\* the files (all that is no directory) under the destination root
DestFiles(f) == {p \in DestNodes : f[p].kind = "file"}

DestDirs(f) == {p \in DestNodes : f[p].kind = "dir"}

Happened(op, path, how) ==
    \E i \in 1..Len(events) : events[i] = Event(op, path, how)

\* negative_sync has returned and positive_sync has not started
NegativeDone == pc = "negative" /\ walk = <<>>

(***************************************************************************)
(* C1: after a negative_sync without dry-run, every file left under the    *)
(* destination root is a key of the mapping, and no directory under or at  *)
(* the destination root is empty.                                          *)
(***************************************************************************)
C1_Exclusivity ==
    (NegativeDone /\ ~dry_run) =>
        /\ \A p \in DestFiles(fs) : p \in DOMAIN paths
        /\ \A p \in DestDirs(fs) : ListDir(fs, p) # {}

\* a directory that held only a stray file went with it, while its parent
\* stays for a file of the mapping
C1_Witness ==
    /\ NegativeDone /\ ~dry_run /\ Len(runs) = 0
    /\ \E p \in DestNodes :
        /\ p # dest_root
        /\ ListDir(fs0, p) # {}
        /\ Happened("rmdir", p, "call")
    /\ DestFiles(fs) # {}

(***************************************************************************)
(* C2: under dry-run the destination tree never changes and no unlink,     *)
(* rmdir, makedirs or copyfile is made.                                    *)
(***************************************************************************)
C2_DryRunNoOp ==
    dry_run =>
        /\ fs = fs0
        /\ \A i \in 1..Len(events) : events[i].how # "call"

\* a dry run that had a file to delete, a directory to remove and a file to
\* copy
C2_Witness ==
    /\ dry_run /\ pc = "done"
    /\ \E p, q, r \in DestNodes :
        /\ Happened("unlink", p, "print")
        /\ Happened("rmdir", q, "print")
        /\ Happened("copyfile", r, "print")

(***************************************************************************)
(* C3: a second positive_sync in succession (main() run twice with         *)
(* --no-delete, without dry-run, the source unchanged) copies nothing.     *)
(***************************************************************************)
C3_SecondRunCopiesNothing ==
    (pc = "done" /\ ~dry_run /\ no_delete /\ Len(runs) = 1) =>
        \A i \in 1..Len(events) :
            ~(events[i].op = "copyfile" /\ events[i].how = "call")

C5_SkipIffUpToDate ==
    [][(pc = "positive" /\ todo # <<>>
        /\ Lookup(fs, Head(todo).source).kind = "file") =>
        LET d == Head(todo).dest
            ds == Lookup(fs, d)
            ss == Lookup(fs, Head(todo).source)
            fresh == /\ ds.kind # "none"
                     /\ ds.size = ss.size
                     /\ ds.mtime >= ss.mtime
            new == SubSeq(events', Len(events) + 1, Len(events'))
            how == IF dry_run THEN "print" ELSE "call"
        IN  /\ fresh => (fs' = fs /\ new = <<Event("skip", d, "log")>>)
            /\ ~fresh =>
                /\ Len(new) >= 2
                /\ new[1] = Event("makedirs", Parent(d), how)
                /\ new[2] = Event("copyfile", d, how)
                /\ (~dry_run /\ pc' # "failed") =>
                       fs'[d] = FileNode(ss.size, Now, ss.data)
      ]_vars

\* the copy replaced a destination file newer than the source, of another
\* size
C5_Witness ==
    /\ pc = "done" /\ ~dry_run /\ no_delete /\ Len(runs) = 0
    /\ \E k \in DOMAIN paths :
        /\ fs0[k].kind = "file"
        /\ fs0[k].mtime > Lookup(fs, paths[k]).mtime
        /\ fs0[k].size # Lookup(fs, paths[k]).size
        /\ Happened("copyfile", k, "call")
        /\ fs[k].data = Lookup(fs, paths[k]).data

(***************************************************************************)
(* C6: after negative_sync and positive_sync without dry-run, every source *)
(* of the mapping being a regular file, the files under the destination    *)
(* root are exactly the keys of the mapping.                               *)
(***************************************************************************)
C6_DestIsMapping ==
    (/\ pc = "done" /\ ~dry_run /\ ~no_delete
     /\ \A k \in DOMAIN paths : Lookup(fs, paths[k]).kind = "file") =>
        DestFiles(fs) = DOMAIN paths

(***************************************************************************)
(* C7: when the source of an entry cannot be stat'ed, the step changes     *)
(* nothing and ends the run: nothing is undone and no later entry is ever  *)
(* visited.                                                                *)
(***************************************************************************)
C7_MissingSourceIsFatal ==
    /\ [][(pc = "positive" /\ todo # <<>>
           /\ ~Exists(fs, Head(todo).source)) =>
              (pc' = "failed" /\ fs' = fs /\ todo' = todo)]_vars
    /\ [][pc # "failed"]_vars

\* the run failed at an entry after it had copied an earlier one, with an
\* entry still to come that no step has looked at
C7_Witness ==
    /\ pc = "failed" /\ ~dry_run
    /\ Len(todo) >= 2
    /\ ~Exists(fs, Head(todo).source)
    /\ ~Exists(fs, todo[2].dest)
    /\ \A i \in 1..Len(events) : events[i].path # todo[2].dest
    /\ \E k \in DOMAIN paths :
        /\ Happened("copyfile", k, "call")
        /\ fs[k].data = Lookup(fs, paths[k]).data

(***************************************************************************)
(* C8: an entry whose source exists and is no regular file changes nothing *)
(* in the filesystem and raises no error; the loop goes on with the next   *)
(* entry.                                                                  *)
(***************************************************************************)
C8_NonRegularSkipped ==
    [][(pc = "positive" /\ todo # <<>>
        /\ Lookup(fs, Head(todo).source).kind \notin {"none", "file"}) =>
           /\ fs' = fs
           /\ pc' = "positive"
           /\ todo' = Tail(todo)
           /\ events' = Append(events, Event("warning", Head(todo).dest, "log"))
      ]_vars

\* the entry of a directory was passed over, its destination file stayed as
\* it was, and a later entry was copied
C8_Witness ==
    /\ pc = "done" /\ ~dry_run
    /\ \E i, j \in 1..Len(events) :
        /\ i < j
        /\ events[i].op = "warning"
        /\ fs[events[i].path].kind = "file"
        /\ fs[events[i].path] = fs0[events[i].path]
        /\ events[j] = Event("copyfile", events[j].path, "call")

(***************************************************************************)
(* Inputs of the pure functions                                            *)
(***************************************************************************)
NameChars == {"a", "A", "_", "!", " ", "acute", "a-acute", "A-acute"}

RawSegs == {<<"a">>, <<"A", "!">>, <<"s">>, Dot, DotDot}

\* the name "My Song (Live)!.mp3"
MySong ==
    <<"M", "y", " ", "S", "o", "n", "g", " ", "(", "L", "i", "v", "e", ")", "!",
      ".", "m", "p", "3">>

\* the lines are relative, or absolute; the song is given as either
RawLines ==
    {Path(a, s) : a \in BOOLEAN, s \in SeqsUpTo(RawSegs, MaxSegs)}
    \cup {Rel(<<MySong>>), Path(TRUE, <<<<"s">>, MySong>>)}

SyncIdle ==
    /\ fs = EmptyMap /\ playlist = <<>> /\ normalize = FALSE
    /\ paths = EmptyMap /\ dry_run = FALSE /\ no_delete = FALSE
    /\ pc = "off" /\ walk = <<>> /\ todo = <<>> /\ events = <<>>
    /\ fs0 = EmptyMap /\ runs = <<>>

(***************************************************************************)
(* SpecNormalize: normalize_name applied once, then to its own result      *)
(***************************************************************************)
InitNormalize ==
    /\ SyncIdle
    /\ fn \in {[op |-> "normalize_name", step |-> 0, arg |-> s,
                once |-> <<>>, twice |-> <<>>] : s \in SeqsUpTo(NameChars, MaxLen)}

NormalizeOnce ==
    /\ fn.op = "normalize_name" /\ fn.step = 0
    /\ fn' = [fn EXCEPT !.step = 1, !.once = normalize_name(fn.arg)]
    /\ UNCHANGED syncVars

NormalizeTwice ==
    /\ fn.op = "normalize_name" /\ fn.step = 1
    /\ fn' = [fn EXCEPT !.step = 2, !.twice = normalize_name(fn.once)]
    /\ UNCHANGED syncVars

NextNormalize == NormalizeOnce \/ NormalizeTwice

SpecNormalize == InitNormalize /\ [][NextNormalize]_vars

(***************************************************************************)
(* SpecResolve: main() turns one playlist line into the mapping            *)
(***************************************************************************)
InitResolve ==
    /\ SyncIdle
    /\ fn \in {[op |-> "resolve", step |-> 0, line |-> l, norm |-> n,
                mapping |-> EmptyMap] : l \in RawLines, n \in BOOLEAN}

Resolve ==
    /\ fn.op = "resolve" /\ fn.step = 0
    /\ fn' = [fn EXCEPT !.step = 1,
                        !.mapping = Synchronizer_init(
                            MainPlaylist(<<fn.line>>, source_root),
                            source_root, dest_root, fn.norm)]
    /\ UNCHANGED syncVars

NextResolve == Resolve

SpecResolve == InitResolve /\ [][NextResolve]_vars

(***************************************************************************)
(* C9: every key of the mapping lies under the destination root and every  *)
(* value under the source root, whatever the playlist line.                *)
(***************************************************************************)
C9_MappingUnderRoots ==
    (fn.op = "resolve" /\ fn.step = 1) =>
        \A k \in DOMAIN fn.mapping :
            Under(k, dest_root) /\ Under(fn.mapping[k], source_root)

(***************************************************************************)
(* C10: normalize_name is idempotent: applied to its own result it         *)
(* returns that result.                                                    *)
(***************************************************************************)
C10_NormalizeIdempotent ==
    (fn.op = "normalize_name" /\ fn.step = 2) => fn.twice = fn.once

\* the line names the song, relative to the source root
IsMySong(line) == prepare_path(line, source_root) = Rel(<<MySong>>)

(***************************************************************************)
(* C11, as claimed: with normalization, the playlist entry                 *)
(* "My Song (Live)!.mp3" yields the destination relative path              *)
(* "my_song_live.mp3".                                                     *)
(***************************************************************************)
C11_MySongPlain ==
    (fn.op = "resolve" /\ fn.step = 1 /\ fn.norm /\ IsMySong(fn.line)) =>
        DOMAIN fn.mapping =
            {join(dest_root,
                  Rel(<< <<"m", "y", "_", "s", "o", "n", "g", "_", "l", "i",
                           "v", "e", ".", "m", "p", "3">> >>))}

(***************************************************************************)
(* C11, as amended: with normalization, the playlist entry                 *)
(* "My Song (Live)!.mp3" yields the destination relative path              *)
(* "my_song_live_.mp3": the run ")!" before the extension becomes an       *)
(* underscore as every other run does.                                     *)
(***************************************************************************)
C11_MySongUnderscore ==
    (fn.op = "resolve" /\ fn.step = 1 /\ fn.norm /\ IsMySong(fn.line)) =>
        DOMAIN fn.mapping =
            {join(dest_root,
                  Rel(<< <<"m", "y", "_", "s", "o", "n", "g", "_", "l", "i",
                           "v", "e", "_", ".", "m", "p", "3">> >>))}

\* the song given as an absolute line of the source root, resolved with
\* normalization: its source keeps the name as it was
C11_Witness ==
    /\ fn.op = "resolve" /\ fn.step = 1 /\ fn.norm
    /\ fn.line = Path(TRUE, <<<<"s">>, MySong>>)
    /\ \E k \in DOMAIN fn.mapping :
        fn.mapping[k] = join(source_root, Rel(<<MySong>>))

\* the operations and paths of the events made in the given way
Actions(ev, how) ==
    {<<ev[i].op, ev[i].path>> : i \in {j \in 1..Len(ev) : ev[j].how = how}}

(***************************************************************************)
(* C12: what a dry-run pass prints it would do (unlink, rmdir, makedirs,   *)
(* copyfile, each with its path) is what the same pass does without        *)
(* dry-run from the same starting state; so a directory that only the      *)
(* removal of its stray files empties is printed as one to remove.         *)
(***************************************************************************)
C12_DryRunPrintsWhatRunDoes ==
    /\ (NegativeDone /\ dry_run /\ Len(runs) = 0) =>
          \A w \in Walks(fs0, dest_root) :
              Actions(events, "print") =
                  Actions(negative_sync(fs0, <<>>, w, paths, FALSE).events, "call")
    /\ (pc \in {"done", "failed"} /\ dry_run /\ no_delete /\ Len(runs) = 0) =>
          Actions(events, "print") =
              Actions(positive_sync(fs0, <<>>, SortedItems(paths), FALSE).events,
                      "call")

(***************************************************************************)
(* C13: under --no-delete negative_sync is never entered and a run deletes *)
(* nothing: no unlink and no rmdir is made or printed, and every file and  *)
(* directory the destination tree held when the run started is still       *)
(* there, as a file or as a directory.                                     *)
(***************************************************************************)
C13_NoDeleteKeepsAll ==
    no_delete =>
        /\ pc # "negative" /\ walk = <<>>
        /\ \A i \in 1..Len(events) : events[i].op \notin {"unlink", "rmdir"}
        /\ \A p \in DestNodes :
            Raw(fs0, p).kind # "none" => Raw(fs, p).kind = Raw(fs0, p).kind

\* a run under --no-delete is over: a directory that holds nothing but a
\* stray file is as it was, and a file of the mapping was written over
C13_Witness ==
    /\ no_delete /\ ~dry_run /\ pc = "done" /\ Len(runs) = 0
    /\ \E p, q, k \in DestNodes :
        /\ p \notin DOMAIN paths /\ fs0[p].kind = "file" /\ fs[p] = fs0[p]
        /\ q \notin DOMAIN paths /\ fs0[q].kind = "dir" /\ ListDir(fs, q) = {p}
        /\ k \in DOMAIN paths /\ fs0[k].kind = "file" /\ fs[k] # fs0[k]
        /\ Happened("copyfile", k, "call")

\* the events positive_sync makes for an entry
PositiveOps == {"skip", "warning", "fatal", "makedirs", "copyfile"}

\* the event is about the entry of destination d
EventOf(e, d) ==
    /\ e.op \in PositiveOps
    /\ e.path = (IF e.op = "makedirs" THEN Parent(d) ELSE d)

(***************************************************************************)
(* C14: positive_sync visits every entry of the mapping once, in ascending *)
(* order of the destination path, and is done with an entry (stat,         *)
(* decision, makedirs, copyfile) before the next one starts; the order is  *)
(* that of the keys alone, whatever the order of the playlist.             *)
(***************************************************************************)
C14_AscendingOneAtATime ==
    /\ [][(pc # "positive" /\ pc' = "positive") =>
            /\ {todo'[i].dest : i \in 1..Len(todo')} = DOMAIN paths
            /\ \A i \in 1..Len(todo') : todo'[i].source = paths[todo'[i].dest]
            /\ \A i, j \in 1..Len(todo') :
                i < j => StrLess(PathStr(todo'[i].dest), PathStr(todo'[j].dest))
         ]_vars
    /\ [][(pc = "positive" /\ todo # <<>>) =>
            LET d == Head(todo).dest
                new == SubSeq(events', Len(events) + 1, Len(events'))
            IN  /\ new # <<>>
                /\ \A i \in 1..Len(new) : EventOf(new[i], d)
                /\ \A i \in 1..Len(events) :
                    (events[i].op \in PositiveOps \ {"makedirs"}) =>
                        StrLess(PathStr(events[i].path), PathStr(d))
                /\ pc' = "positive" => todo' = Tail(todo)
         ]_vars

\* the playlist names a/a before A, and the run copied to A first and to a/a
\* after it
C14_Witness ==
    /\ pc = "done" /\ ~dry_run /\ ~normalize /\ Len(runs) = 0
    /\ \E m, n \in 1..Len(playlist), i, j \in 1..Len(events) :
        /\ m < n /\ i < j
        /\ events[j] = Event("copyfile", join(dest_root, playlist[m]), "call")
        /\ events[i] = Event("copyfile", join(dest_root, playlist[n]), "call")

\* the destination key of the i-th line of the playlist
KeyOfLine(i) ==
    join(dest_root,
         NormalizePath(MainPlaylist(playlist, source_root)[i], normalize))

SourceOfLine(i) == join(source_root, MainPlaylist(playlist, source_root)[i])

(***************************************************************************)
(* C15: the mapping, as main() has built it, holds one entry for each       *)
(* destination key the playlist produces, and its source is that of the    *)
(* last line producing the key; positive_sync visits a key once and what   *)
(* it copies there is the source the mapping holds for it.                 *)
(***************************************************************************)
C15_LastEntryWins ==
    /\ pc = "start" =>
        LET n == Len(playlist)
            key == [i \in 1..n |-> KeyOfLine(i)]
            last == {i \in 1..n : \A j \in (i + 1)..n : key[j] # key[i]}
        IN  /\ DOMAIN paths = {key[i] : i \in 1..n}
            /\ \A i \in last : paths[key[i]] = SourceOfLine(i)
    /\ \A i, j \in 1..Len(todo) : todo[i].dest = todo[j].dest => i = j
    /\ \A i \in 1..Len(todo) : todo[i].source = paths[todo[i].dest]
    /\ \A i, j \in 1..Len(events) :
        (events[i].op = "copyfile" /\ events[i] = events[j]) => i = j
    /\ \A k \in DOMAIN paths :
        (Happened("copyfile", k, "call") /\ fs[k].kind = "file") =>
            fs[k].data = Lookup(fs, paths[k]).data

\* two lines, both regular files of the source, give one key under
\* normalization, and the copy made there is that of the later line
C15_Witness ==
    /\ pc = "done" /\ ~dry_run /\ normalize /\ Len(runs) = 0
    /\ \E m, n \in 1..Len(playlist) :
        /\ m < n /\ KeyOfLine(m) = KeyOfLine(n)
        /\ \A j \in (n + 1)..Len(playlist) : KeyOfLine(j) # KeyOfLine(n)
        /\ Lookup(fs, SourceOfLine(m)).kind = "file"
        /\ Lookup(fs, SourceOfLine(n)).kind = "file"
        /\ Happened("copyfile", KeyOfLine(n), "call")
        /\ fs[KeyOfLine(n)].data = Lookup(fs, SourceOfLine(n)).data
        /\ fs[KeyOfLine(n)].data # Lookup(fs, SourceOfLine(m)).data

\* the directories above p, the root of the filesystem left out
Ancestors(p) == {Path(p.abs, SubSeq(p.segs, 1, n)) : n \in 1..(Len(p.segs) - 1)}

(***************************************************************************)
(* C16: when the destination root does not exist, negative_sync does       *)
(* nothing and fails at nothing; a positive_sync without dry-run then      *)
(* makes the root and every missing directory above a destination before   *)
(* it copies, and a directory above it that exists already is no error:    *)
(* the copy is made.                                                       *)
(***************************************************************************)
C16_MissingRootIsMade ==
    /\ [][(pc = "start" /\ pc' = "negative" /\ ~Exists(fs, dest_root)) =>
            walk' = <<>>]_vars
    /\ []((pc = "negative" /\ ~Exists(fs0, dest_root)) =>
            (walk = <<>> /\ events = <<>> /\ fs = fs0))
    /\ [][(/\ pc = "positive" /\ todo # <<>> /\ ~dry_run
            /\ Lookup(fs, Head(todo).source).kind = "file"
            /\ LET ds == Lookup(fs, Head(todo).dest)
                   ss == Lookup(fs, Head(todo).source)
               IN  /\ ds.kind # "dir"
                   /\ ~(ds.kind # "none" /\ ds.size = ss.size
                                         /\ ds.mtime >= ss.mtime)
            /\ \A a \in Ancestors(Head(todo).dest) :
                Lookup(fs, a).kind \in {"none", "dir"}) =>
            LET d == Head(todo).dest
            IN  /\ pc' = "positive"
                /\ \A a \in Ancestors(d) : Lookup(fs', a).kind = "dir"
                /\ fs'[d].kind = "file"
                /\ fs'[d].data = Lookup(fs, Head(todo).source).data
                /\ events' = events \o <<Event("makedirs", Parent(d), "call"),
                                          Event("copyfile", d, "call")>>
         ]_vars

\* the destination root was missing: the walk did nothing, the first copy
\* made the root, and the second found it there
C16_Witness ==
    /\ pc = "done" /\ ~dry_run /\ ~no_delete /\ Len(runs) = 0
    /\ ~Exists(fs0, dest_root)
    /\ fs[dest_root].kind = "dir"
    /\ \E k, j \in DOMAIN paths :
        /\ k # j /\ Parent(k) = dest_root /\ Parent(j) = dest_root
        /\ events = <<Event("makedirs", dest_root, "call"),
                      Event("copyfile", k, "call"),
                      Event("makedirs", dest_root, "call"),
                      Event("copyfile", j, "call")>>
        /\ fs[k].kind = "file" /\ fs[j].kind = "file"

\* the files at keys of the mapping when the run started
KeyFiles == {k \in DOMAIN paths : Lookup(fs0, k).kind = "file"}

(***************************************************************************)
(* C17: negative_sync never deletes a file whose path is a key of the      *)
(* mapping, and never removes a directory with such a file in it or below  *)
(* it; so a destination file that positive_sync takes for up to date is    *)
(* not deleted and copied again within the run: it stays as it was.        *)
(***************************************************************************)
C17_KeysSurviveNegative ==
    /\ \A i \in 1..Len(events) :
        /\ events[i].op = "unlink" => events[i].path \notin DOMAIN paths
        /\ events[i].op = "rmdir" =>
               \A k \in KeyFiles : ~IsPrefix(events[i].path.segs, k.segs)
    /\ pc = "negative" => \A k \in KeyFiles : fs[k] = fs0[k]
    /\ \A k \in KeyFiles :
        LET ds == fs0[k]
            ss == Lookup(fs0, paths[k])
        IN  (ss.kind = "file" /\ ds.size = ss.size /\ ds.mtime >= ss.mtime) =>
                /\ fs[k] = fs0[k]
                /\ \A i \in 1..Len(events) :
                    events[i].path = k =>
                        events[i].op \notin {"unlink", "rmdir", "copyfile"}

\* the run deleted a stray file and removed the directory it was in, and
\* passed over a file of the mapping that was up to date
C17_Witness ==
    /\ pc = "done" /\ ~dry_run /\ ~no_delete /\ Len(runs) = 0
    /\ \E p, q \in DestNodes, k \in KeyFiles :
        /\ Happened("unlink", p, "call")
        /\ Happened("rmdir", q, "call")
        /\ Happened("skip", k, "log")
        /\ fs[k] = fs0[k]

(***************************************************************************)
(* SpecLink: the runs of main() over a destination that holds a symbolic   *)
(* link to a directory outside it                                          *)
(***************************************************************************)
\* the link d/a, and the directory it names: the source root
LinkPath == join(dest_root, Rel(<< <<"a">> >>))
LinkTarget == source_root

\* the destination trees with the link: beside it, whatever d/A may be
DestLinkTrees ==
    {f \in DestTrees : Raw(f, LinkPath).kind = "none"
                        /\ Raw(f, dest_root).kind = "dir"}

InitLink ==
    /\ fn = FnIdle
    /\ playlist \in Playlists
    /\ normalize \in BOOLEAN
    /\ dry_run \in BOOLEAN
    /\ no_delete \in BOOLEAN
    /\ paths = Synchronizer_init(MainPlaylist(playlist, source_root),
                                 source_root, dest_root, normalize)
    /\ fs \in {Put(d, LinkPath, LinkNode(LinkTarget)) @@ s :
                  d \in DestLinkTrees, s \in SourceTrees}
    /\ fs0 = fs
    /\ pc = "start"
    /\ walk = <<>>
    /\ todo = <<>>
    /\ events = <<>>
    /\ runs = <<>>

SpecLink == InitLink /\ [][Next]_vars

\* negative_sync raised: the run ended with the walk not over
NegativeFailed == pc = "failed" /\ walk # <<>>

(***************************************************************************)
(* C19: every file negative_sync deletes lies inside the destination tree: *)
(* over a destination with a link to a directory outside it, the walk      *)
(* follows the link, no file of that directory is deleted, and the pass    *)
(* ends without an error.                                                  *)
(***************************************************************************)
C19_DeletesStayInside ==
    /\ \A i \in 1..Len(events) :
        (events[i].op = "unlink" /\ events[i].how = "call") =>
            IsPrefix(dest_root.segs, RealEntry(fs0, events[i].path).segs)
    /\ pc = "negative" => \A p \in SourceNodes : fs[p] = fs0[p]
    /\ ~NegativeFailed

(***************************************************************************)
(* C18: positive_sync deletes nothing, and what it creates or writes over  *)
(* is the file at the key it is at and the directories above that key; a   *)
(* destination that passes the up-to-date check stays as it is; and no     *)
(* step of either pass changes anything under the source root or any entry *)
(* of the mapping.                                                         *)
(***************************************************************************)
C18_Frame ==
    /\ [][(pc = "positive" /\ todo # <<>>) =>
            LET d == Head(todo).dest
                ds == Lookup(fs, d)
                ss == Lookup(fs, Head(todo).source)
            IN  /\ \A p \in DOMAIN fs :
                    Raw(fs, p).kind # "none" => Raw(fs', p).kind = Raw(fs, p).kind
                /\ \A p \in DOMAIN fs' :
                    Raw(fs', p) # Raw(fs, p) =>
                        \/ p = d /\ Raw(fs', p).kind = "file"
                        \/ /\ p \in Ancestors(d)
                           /\ Raw(fs, p).kind = "none"
                           /\ Raw(fs', p) = DirNode
                /\ (/\ ss.kind = "file" /\ ds.kind # "none"
                    /\ ds.size = ss.size /\ ds.mtime >= ss.mtime) => fs' = fs
         ]_vars
    /\ [][/\ paths' = paths
          /\ \A p \in SourceNodes : Raw(fs', p) = Raw(fs, p)]_vars

====
